---- MODULE Spec2Model ----
(***************************************************************************)
(* Model of tensorflow/core/kernels/matrix_solve_op.cc: the MatrixSolveOp  *)
(* kernel (GetOutputMatrixShape, GetCostPerUnit, ComputeMatrix).           *)
(*                                                                         *)
(* Numbers.  TLC's integers are 32 bits wide, the program's are int64 and  *)
(* IEEE binary32/binary64.  Both are modelled on arbitrary-precision       *)
(* naturals ("big" numbers: little-endian sequences of 15-bit limbs), so   *)
(* that the int64 product of GetCostPerUnit and the rounding of every      *)
(* floating-point operation are computed, not assumed.                     *)
(***************************************************************************)
EXTENDS Integers, Sequences, FiniteSets, TLC

-----------------------------------------------------------------------------
(* Arbitrary-precision naturals: <<l1, ..., lk>> is l1 + l2*Base + ...,      *)
(* with lk # 0; zero is << >>.                                               *)

LimbBits == 5 * 3
Base == 2^LimbBits

Max(a, b) == IF a >= b THEN a ELSE b
Min(a, b) == IF a <= b THEN a ELSE b

\* The operators below avoid recursion where they can (a carry is found by
\* looking back for the limb that generates it), and hand an intermediate
\* result on as the argument of a local operator that first takes its length:
\* TLC then evaluates it there, once, and its evaluation stays shallow.

Got(a) == Len(a) >= 0

Limb(a, i) == IF 1 <= i /\ i <= Len(a) THEN a[i] ELSE 0

\* a without its leading zero limbs
BNorm(a) ==
  LET UpTo(nz) ==
        IF nz = {} THEN << >> ELSE SubSeq(a, 1, CHOOSE i \in nz : \A j \in nz : j <= i)
  IN  UpTo({i \in 1..Len(a) : a[i] # 0})

\* for 0 <= n < 2^31
BFromInt(n) == BNorm(<<n % Base, (n \div Base) % Base, n \div (Base * Base)>>)

\* a + b: the carry into limb i comes from a limb j < i whose sum reaches Base,
\* through limbs whose sums are all Base - 1
BAdd(a, b) ==
  LET n == Max(Len(a), Len(b))
      s(i) == Limb(a, i) + Limb(b, i)
      carry(i) ==
        IF \E j \in 1..(i - 1) : s(j) >= Base /\ \A k \in (j + 1)..(i - 1) : s(k) = Base - 1
        THEN 1 ELSE 0
  IN  BNorm([i \in 1..(n + 1) |-> (s(i) + carry(i)) % Base])

\* a - b for a >= b: the borrow, likewise, through limbs whose differences are 0
BSub(a, b) ==
  LET d(i) == Limb(a, i) - Limb(b, i)
      borrow(i) ==
        IF \E j \in 1..(i - 1) : d(j) < 0 /\ \A k \in (j + 1)..(i - 1) : d(k) = 0
        THEN 1 ELSE 0
  IN  BNorm([i \in 1..Len(a) |-> (d(i) - borrow(i) + Base) % Base])

\* -1, 0, 1 as a < b, a = b, a > b
BCmp(a, b) ==
  IF Len(a) < Len(b) THEN -1
  ELSE IF Len(a) > Len(b) THEN 1
  ELSE LET diff == {i \in 1..Len(a) : a[i] # b[i]}
       IN  IF diff = {} THEN 0
           ELSE LET t == CHOOSE i \in diff : \A j \in diff : j <= i
                IN  IF a[t] < b[t] THEN -1 ELSE 1

\* a * Base^n
BShiftLimbs(a, n) == IF a = << >> THEN a ELSE [i \in 1..n |-> 0] \o a

\* a * k for 0 <= k < Base: the low halves of the limb products plus their high
\* halves one limb up
BMulSmall(a, k) ==
  BAdd([i \in 1..Len(a) |-> (a[i] * k) % Base],
       <<0>> \o [i \in 1..Len(a) |-> (a[i] * k) \div Base])

\* the sum of a * b[j] * Base^(j-1) for j in lo..hi, by halves
RECURSIVE BMulRange(_, _, _, _)
BMulRange(a, b, lo, hi) ==
  IF lo > hi THEN << >>
  ELSE IF lo = hi THEN BShiftLimbs(BMulSmall(a, b[lo]), lo - 1)
  ELSE LET Sum(x, y) == IF Got(x) /\ Got(y) THEN BAdd(x, y) ELSE << >>
       IN  Sum(BMulRange(a, b, lo, (lo + hi) \div 2),
               BMulRange(a, b, (lo + hi) \div 2 + 1, hi))

BMul(a, b) ==
  IF Len(a) >= Len(b) THEN BMulRange(a, b, 1, Len(b)) ELSE BMulRange(b, a, 1, Len(a))

\* a * 2^n and floor(a / 2^n)
BShl(a, n) == BMulSmall(BShiftLimbs(a, n \div LimbBits), 2^(n % LimbBits))
BShr(a, n) ==
  LET w == n \div LimbBits
      m == n % LimbBits
  IN  BNorm([i \in 1..Max(0, Len(a) - w) |->
               (a[i + w] \div 2^m) + (Limb(a, i + w + 1) % 2^m) * 2^(LimbBits - m)])

\* for 0 <= n < Base: the number of bits of n; the number of its trailing zero bits
SmallBitLen(n) == CHOOSE k \in 0..LimbBits : n < 2^k /\ (k = 0 \/ n >= 2^(k - 1))
SmallTrailingZeros(n) == CHOOSE k \in 0..LimbBits : n % 2^k = 0 /\ (n \div 2^k) % 2 = 1

BBitLen(a) ==
  IF a = << >> THEN 0 ELSE LimbBits * (Len(a) - 1) + SmallBitLen(a[Len(a)])

\* the number of trailing zero bits of a # 0
BTrailingZeros(a) ==
  LET f == CHOOSE i \in 1..Len(a) : a[i] # 0 /\ \A j \in 1..(i - 1) : a[j] = 0
  IN  LimbBits * (f - 1) + SmallTrailingZeros(a[f])

BIsOdd(a) == a # << >> /\ a[1] % 2 = 1

\* the quotient digit floor(r / d) for r < d * Base and d with its top bit set
\* (Len(d) = n): the estimate from the top limbs is at most 2 too large
QuotientDigit(r, d, n) ==
  LET Adjust(est, product) ==
        IF BCmp(product, r) <= 0 THEN est
        ELSE IF BCmp(BSub(product, d), r) <= 0 THEN est - 1
        ELSE est - 2
      Try(est) == Adjust(est, BMulSmall(d, est))
  IN  Try(Min(Base - 1, (Limb(r, n + 1) * Base + Limb(r, n)) \div d[n]))

\* one step of the long division: the limb x taken in below the remainder of up
BDivLimb(x, d, up) ==
  LET Emit(r, q) == <<BNorm(<<q>> \o up[1]), BSub(r, BMulSmall(d, q))>>
      Step(r) == Emit(r, QuotientDigit(r, d, Len(d)))
  IN  Step(BNorm(<<x>> \o up[2]))

\* <<quotient, remainder>> of the limbs i and above of a by d: long division, a
\* limb at a time from the top (Len(up) = 2 has the upper limbs divided first)
RECURSIVE BDivLimbs(_, _, _)
BDivLimbs(a, d, i) ==
  IF i > Len(a) THEN <<<< >>, << >>>>
  ELSE LET Lower(up) == IF Len(up) = 2 THEN BDivLimb(a[i], d, up) ELSE up
       IN  Lower(BDivLimbs(a, d, i + 1))

\* <<floor(a / b), a mod b>> for b # 0: both scaled so that b's top bit is set
BDivMod(a, b) ==
  LET s == LimbBits - SmallBitLen(b[Len(b)])
      Unscaled(qr) == <<qr[1], BShr(qr[2], s)>>
      Scaled(sa, sb) ==
        IF Got(sa) /\ Got(sb) THEN Unscaled(BDivLimbs(sa, sb, 1)) ELSE <<sa, sb>>
  IN  Scaled(BShl(a, s), BShl(b, s))

-----------------------------------------------------------------------------
(* Scalar: the template parameter of MatrixSolveOp, float or double.  A      *)
(* finite scalar is a dyadic rational [neg, m, e], the number                *)
(* (-1)^neg * m * 2^e with m odd, or m = 0 (then e = 0 and neg = FALSE), so   *)
(* that equal numbers are equal records.  The D operators are exact; the F   *)
(* operators round the exact result to `digits` significant bits, to nearest *)
(* and ties to even, as IEEE 754 arithmetic does.  Exponent range (overflow, *)
(* subnormals), infinities and NaN are not modelled: the inputs drawn below  *)
(* stay far from them.                                                       *)

\* std::numeric_limits<float>::digits and <double>::digits
FloatDigits == 24
DoubleDigits == 53

DZero == [neg |-> FALSE, m |-> << >>, e |-> 0]

\* x has been evaluated (see Got)
Known(x) == x.neg \in BOOLEAN

DNorm(neg, m, e) ==
  IF m = << >> THEN DZero
  ELSE LET tz == BTrailingZeros(m)
           Odd(odd) == IF Got(odd) THEN [neg |-> neg, m |-> odd, e |-> e + tz] ELSE DZero
       IN  Odd(BShr(m, tz))

DInt(n) == DNorm(n < 0, BFromInt(IF n < 0 THEN -n ELSE n), 0)

DIsZero(x) == x.m = << >>
DNeg(x) == IF DIsZero(x) THEN x ELSE [x EXCEPT !.neg = ~x.neg]
DAbs(x) == [x EXCEPT !.neg = FALSE]

DAdd(x, y) ==
  IF ~(Known(x) /\ Known(y)) THEN DZero
  ELSE IF DIsZero(x) THEN y
  ELSE IF DIsZero(y) THEN x
  ELSE LET e0 == Min(x.e, y.e)
           Emit(neg, sum) == IF Got(sum) THEN DNorm(neg, sum, e0) ELSE DZero
           Signed(mx, my, c) ==
             Emit(IF x.neg = y.neg \/ c >= 0 THEN x.neg ELSE y.neg,
                  IF x.neg = y.neg THEN BAdd(mx, my)
                  ELSE IF c >= 0 THEN BSub(mx, my)
                  ELSE BSub(my, mx))
           Aligned(mx, my) ==
             IF Got(mx) /\ Got(my) THEN Signed(mx, my, BCmp(mx, my)) ELSE DZero
       IN  Aligned(BShl(x.m, x.e - e0), BShl(y.m, y.e - e0))

DSub(x, y) == IF Known(y) THEN DAdd(x, DNeg(y)) ELSE DZero

DMul(x, y) ==
  IF ~(Known(x) /\ Known(y)) \/ DIsZero(x) \/ DIsZero(y) THEN DZero
  ELSE DNorm(x.neg # y.neg, BMul(x.m, y.m), x.e + y.e)

\* x * 2^n
DScale(x, n) == IF DIsZero(x) THEN x ELSE [x EXCEPT !.e = x.e + n]

DSign(x) == IF DIsZero(x) THEN 0 ELSE IF x.neg THEN -1 ELSE 1
DLess(x, y) == DSign(DSub(x, y)) < 0
DLeq(x, y) == DSign(DSub(x, y)) <= 0
DMax(x, y) == IF DLess(x, y) THEN y ELSE x

\* x rounded to `digits` significant bits, to nearest, ties to even
Round(x, digits) ==
  IF ~Known(x) \/ BBitLen(x.m) <= digits THEN x
  ELSE LET d == BBitLen(x.m) - digits
           Emit(m) == IF Got(m) THEN DNorm(x.neg, m, x.e + d) ELSE x
           Tie(q, c) ==
             IF c >= -1 THEN Emit(IF c > 0 \/ (c = 0 /\ BIsOdd(q)) THEN BAdd(q, <<1>>) ELSE q)
             ELSE x
           Cut(q) ==
             IF Got(q) THEN Tie(q, BCmp(BSub(x.m, BShl(q, d)), BShl(<<1>>, d - 1)))
             ELSE x
       IN  Cut(BShr(x.m, d))

FAdd(x, y, digits) == Round(DAdd(x, y), digits)
FSub(x, y, digits) == Round(DSub(x, y), digits)
FMul(x, y, digits) == Round(DMul(x, y), digits)

\* x / y for y # 0, correctly rounded: the quotient of the mantissas to digits + 1
\* bits or more, then one sticky bit for a nonzero remainder, then Round
FDiv(x, y, digits) ==
  IF ~(Known(x) /\ Known(y)) \/ DIsZero(x) THEN DZero
  ELSE LET k == digits + 2 + Max(0, BBitLen(y.m) - BBitLen(x.m))
           Emit(qr) ==
             IF Got(qr)
             THEN Round(DNorm(x.neg # y.neg,
                              BAdd(BMulSmall(qr[1], 2),
                                   IF qr[2] = << >> THEN << >> ELSE <<1>>),
                              x.e - y.e - k - 1),
                        digits)
             ELSE DZero
       IN  Emit(BDivMod(BShl(x.m, k), y.m))

\* std::numeric_limits<Scalar>::epsilon(): 2^(1 - digits)
Epsilon(digits) == [neg |-> FALSE, m |-> <<1>>, e |-> 1 - digits]

-----------------------------------------------------------------------------
(* Matrices (ConstMatrixMap, MatrixMap, Matrix): [rows, cols, coeff], coeff  *)
(* the sequence of the rows, each a sequence of cols scalars.                *)

Mat(r, c, coeff) == [rows |-> r, cols |-> c, coeff |-> coeff]

\* the sequence f as a tuple of its elements (concatenation makes TLC build
\* the sequence instead of keeping the rule that defines it)
Built(f) == f \o << >>

\* the r x c matrix of small integers given row by row
IntMat(r, c, ints) ==
  Mat(r, c, Built([i \in 1..r |-> Built([j \in 1..c |-> DInt(ints[i][j])])]))

Filled(r, c, x) == Mat(r, c, Built([i \in 1..r |-> Built([j \in 1..c |-> x])]))

\* <<hi, hi - 1, ..., lo>> and <<lo, lo + 1, ..., hi>>
Downto(hi, lo) == [t \in 1..(hi - lo + 1) |-> hi + 1 - t] \o << >>
Upto(lo, hi) == [t \in 1..(hi - lo + 1) |-> lo + t - 1] \o << >>

-----------------------------------------------------------------------------
(* Eigen::PartialPivLU<Matrix> (line 83), of third_party/eigen3: modelled    *)
(* from the algorithm the specification states (section 4.2): P*A = L*U by   *)
(* Gaussian elimination, at each step taking as pivot the entry of largest   *)
(* absolute value of the active column, L unit lower triangular and U upper  *)
(* triangular stored in one matrix, P as the sequence perm of source rows.   *)
(* A zero pivot column is recorded and skipped, as Eigen does.               *)

\* the first row i in k..n with |c[i][k]| largest
PivotRow(c, k, n) ==
  CHOOSE i \in k..n :
    /\ \A j \in k..n : DLeq(DAbs(c[j][k]), DAbs(c[i][k]))
    /\ \A j \in k..(i - 1) : DLess(DAbs(c[j][k]), DAbs(c[i][k]))

SwapRows(c, i, j) == [c EXCEPT ![i] = c[j], ![j] = c[i]]

\* row i > k of c after the elimination with the pivot row k
Eliminate(c, i, k, n, digits) ==
  LET Row(multiplier) ==
        IF Known(multiplier)
        THEN Built([j \in 1..n |->
                      IF j < k THEN c[i][j]
                      ELSE IF j = k THEN multiplier
                      ELSE FSub(c[i][j], FMul(multiplier, c[k][j], digits), digits)])
        ELSE c[i]
  IN  Row(FDiv(c[i][k], c[k][k], digits))

\* elimination step k on <<lu, perm>>
LUStep(s, k, n, digits) ==
  LET Swapped(c, p) ==
        <<Built([i \in 1..n |-> IF i <= k THEN c[i] ELSE Eliminate(c, i, k, n, digits)]),
          SwapRows(s[2], k, p)>>
      Pivoted(p) ==
        IF DIsZero(s[1][p][k]) THEN s ELSE Swapped(SwapRows(s[1], k, p), p)
  IN  Pivoted(PivotRow(s[1], k, n))

RECURSIVE LUFrom(_, _, _, _)
LUFrom(s, k, n, digits) ==
  IF k > n THEN s
  ELSE LET Continue(t) == IF Len(t) = 2 THEN LUFrom(t, k + 1, n, digits) ELSE t
       IN  Continue(LUStep(s, k, n, digits))

\* lu_decomposition(matrix) for a square, nonempty matrix
PartialPivLU(matrix, digits) ==
  LET Result(s) == [n |-> matrix.rows, lu |-> s[1], perm |-> s[2]]
  IN  Result(LUFrom(<<matrix.coeff, Upto(1, matrix.rows)>>, 1, matrix.rows, digits))

\* the LU object before its construction
NoLU == [n |-> 0, lu |-> << >>, perm |-> << >>]

\* acc - row[j1]*vec[j1] - row[j2]*vec[j2] - ..., rounded after every operation
RECURSIVE SubTerms(_, _, _, _, _)
SubTerms(acc, row, vec, js, digits) ==
  IF js = << >> THEN acc
  ELSE LET Continue(next) ==
             IF Known(next) THEN SubTerms(next, row, vec, Tail(js), digits) ELSE next
       IN  Continue(FSub(acc, FMul(row[Head(js)], vec[Head(js)], digits), digits))

\* L*y = b for the unit lower triangle of lu: y[1], then y[2], ...
RECURSIVE ForwardFrom(_, _, _, _, _)
ForwardFrom(d, b, i, y, digits) ==
  IF i > d.n THEN y
  ELSE LET Continue(next) ==
             IF Len(next) = i THEN ForwardFrom(d, b, i + 1, next, digits) ELSE next
       IN  Continue(Append(y, SubTerms(b[i], d.lu[i], y, Upto(1, i - 1), digits)))

\* U*x = y for the upper triangle of lu: x[n], then x[n-1], ...
RECURSIVE BackFrom(_, _, _, _)
BackFrom(d, i, x, digits) ==
  IF i < 1 THEN x
  ELSE LET Continue(xi) ==
             IF Known(xi) THEN BackFrom(d, i - 1, [x EXCEPT ![i] = xi], digits) ELSE x
       IN  Continue(FDiv(SubTerms(x[i], d.lu[i], x, Downto(d.n, i + 1), digits),
                         d.lu[i][i], digits))

\* the column x of d's system with the right-hand side b (P applied to it)
SolveColumn(d, b, digits) ==
  LET Back(y) == IF Len(y) = d.n THEN BackFrom(d, d.n, y, digits) ELSE y
  IN  Back(ForwardFrom(d, b, 1, << >>, digits))

\* lu_decomposition.solve(rhs): column by column
LUSolve(d, rhs, digits) ==
  LET col(j) == Built([i \in 1..d.n |-> rhs.coeff[d.perm[i]][j]])
      Columns(xs) ==
        IF Len(xs) = rhs.cols
        THEN Mat(d.n, rhs.cols,
                 Built([i \in 1..d.n |-> Built([j \in 1..rhs.cols |-> xs[j][i]])]))
        ELSE rhs
  IN  Columns(Built([j \in 1..rhs.cols |-> SolveColumn(d, col(j), digits)]))

RECURSIVE MinAbsFrom(_, _)
MinAbsFrom(d, i) ==
  IF i >= d.n THEN DAbs(d.lu[i][i])
  ELSE LET Least(here, rest) == IF DLess(here, rest) THEN here ELSE rest
       IN  Least(DAbs(d.lu[i][i]), MinAbsFrom(d, i + 1))

\* lu_decomposition.matrixLU().diagonal().cwiseAbs().minCoeff()
MinAbsPivot(d) == MinAbsFrom(d, 1)

-----
(* State.  One kernel instance (one Scalar) serves a batch of calls of       *)
(* ComputeMatrix, call i on the i-th (matrix, rhs, output) of the batch; the *)
(* calls may run on different workers, so each has its own program counter   *)
(* and its own local lu_decomposition.                                       *)

VARIABLES
  digits,            \* Scalar: FloatDigits or DoubleDigits
  fill,              \* what the output buffers hold before the calls
  matrix,            \* matrix[i]: the input view of call i
  rhs,               \* rhs[i]: the right-hand sides of call i
  output,            \* output[i]: the output view of call i
  pc,                \* pc[i]: where call i stands
  lu_decomposition,  \* lu_decomposition[i]: the local of call i
  status,            \* status[i]: what call i reported
  trace,             \* trace[i]: the steps call i has executed (history)
  input_matrix_shape, rhs_matrix_shape,  \* arguments of GetOutputMatrixShape
  output_matrix_shape,                   \* its result
  shape_pc,                              \* "call", "returned" or "aborted"
  rows, rhss,        \* GetCostPerUnit: dim_size(0) of the input, dim_size(1) of the rhs
  cost,              \* its result
  overflowed,        \* its int64 arithmetic overflowed (undefined behaviour)
  prev_call,         \* the call of GetCostPerUnit before the last one (history)
  cost_pc            \* "idle", "call" or "returned"

solveVars == <<digits, fill, matrix, rhs, output, pc, lu_decomposition, status, trace>>
shapeVars == <<input_matrix_shape, rhs_matrix_shape, output_matrix_shape, shape_pc>>
costVars == <<rows, rhss, cost, overflowed, prev_call, cost_pc>>
vars == <<solveVars, shapeVars, costVars>>

Calls == DOMAIN pc

\* Status::OK() and errors::InvalidArgument(msg)
OK == [code |-> "OK", msg |-> ""]
InvalidArgument(msg) == [code |-> "INVALID_ARGUMENT", msg |-> msg]

NotSquare == InvalidArgument("Input matrix must be square.")
Incompatible == InvalidArgument("Input matrix and rhs are incompatible.")
NotInvertible == InvalidArgument("Input matrix is not invertible.")
\* the specification's names for the three
ShapeMismatch == {NotSquare, Incompatible}

\* OP_REQUIRES(context, cond, err) of call i at step `at`, the next step being `to`:
\* when cond fails, err is reported (CtxFailure) and the call returns
OP_REQUIRES(i, at, cond, err, to) ==
  IF cond
  THEN /\ pc' = [pc EXCEPT ![i] = to]
       /\ trace' = [trace EXCEPT ![i] = Append(@, at)]
       /\ status' = status
  ELSE /\ pc' = [pc EXCEPT ![i] = "done"]
       /\ trace' = [trace EXCEPT ![i] = Append(Append(@, at), "CtxFailure")]
       /\ status' = [status EXCEPT ![i] = err]

\* Faulty variants of the steps below; each property of the last section fails
\* when the step it rests on is replaced by its variant.

\* the square check reports the error and goes on
CheckSquareContinues(i) ==
  /\ pc[i] = "check_square"
  /\ pc' = [pc EXCEPT ![i] = "check_rhs"]
  /\ IF matrix[i].rows = matrix[i].cols
     THEN /\ trace' = [trace EXCEPT ![i] = Append(@, "check_square")]
          /\ status' = status
     ELSE /\ trace' = [trace EXCEPT ![i] = Append(Append(@, "check_square"), "CtxFailure")]
          /\ status' = [status EXCEPT ![i] = NotSquare]
  /\ UNCHANGED <<digits, fill, matrix, rhs, output, lu_decomposition, shapeVars, costVars>>

\* the row counts are not compared
CheckRhsSkipped(i) ==
  /\ pc[i] = "check_rhs"
  /\ pc' = [pc EXCEPT ![i] = "check_empty"]
  /\ trace' = [trace EXCEPT ![i] = Append(@, "check_rhs")]
  /\ UNCHANGED <<digits, fill, matrix, rhs, output, lu_decomposition, status,
                 shapeVars, costVars>>

\* no early return for the empty matrix
CheckEmptyFallsThrough(i) ==
  /\ pc[i] = "check_empty"
  /\ pc' = [pc EXCEPT ![i] = "factorize"]
  /\ trace' = [trace EXCEPT ![i] = Append(@, "check_empty")]
  /\ UNCHANGED <<digits, fill, matrix, rhs, output, lu_decomposition, status,
                 shapeVars, costVars>>

\* min_abs_pivot >= Scalar(0)
CheckPivotNonNegative(i) ==
  /\ pc[i] = "check_pivot"
  /\ OP_REQUIRES(i, "check_pivot", DLeq(DZero, MinAbsPivot(lu_decomposition[i])),
                 NotInvertible, "solve")
  /\ UNCHANGED <<digits, fill, matrix, rhs, output, lu_decomposition, shapeVars, costVars>>

\* *output = rhs
SolveCopiesRhs(i) ==
  /\ pc[i] = "solve"
  /\ output' = [output EXCEPT ![i] = rhs[i]]
  /\ pc' = [pc EXCEPT ![i] = "done"]
  /\ trace' = [trace EXCEPT ![i] = Append(@, "solve")]
  /\ UNCHANGED <<digits, fill, matrix, rhs, lu_decomposition, status, shapeVars, costVars>>

\* every call writes the output view of the first call
SolveWritesFirstOutput(i) ==
  /\ pc[i] = "solve"
  /\ output' = [output EXCEPT ![1] = LUSolve(lu_decomposition[i], rhs[i], digits)]
  /\ pc' = [pc EXCEPT ![i] = "done"]
  /\ trace' = [trace EXCEPT ![i] = Append(@, "solve")]
  /\ UNCHANGED <<digits, fill, matrix, rhs, lu_decomposition, status, shapeVars, costVars>>

\* line 73
CheckSquare(i) ==
  /\ pc[i] = "check_square"
  /\ OP_REQUIRES(i, "check_square", matrix[i].rows = matrix[i].cols, NotSquare, "check_rhs")
  /\ UNCHANGED <<digits, fill, matrix, rhs, output, lu_decomposition, shapeVars, costVars>>

\* lines 75-77
CheckRhs(i) ==
  /\ pc[i] = "check_rhs"
  /\ OP_REQUIRES(i, "check_rhs", matrix[i].rows = rhs[i].rows, Incompatible, "check_empty")
  /\ UNCHANGED <<digits, fill, matrix, rhs, output, lu_decomposition, shapeVars, costVars>>

\* lines 78-82
CheckEmpty(i) ==
  /\ pc[i] = "check_empty"
  /\ pc' = [pc EXCEPT ![i] = IF matrix[i].rows = 0 THEN "done" ELSE "factorize"]
  /\ trace' = [trace EXCEPT ![i] = Append(@, "check_empty")]
  /\ UNCHANGED <<digits, fill, matrix, rhs, output, lu_decomposition, status,
                 shapeVars, costVars>>

\* line 83
Factorize(i) ==
  /\ pc[i] = "factorize"
  /\ lu_decomposition' =
       [lu_decomposition EXCEPT ![i] = PartialPivLU(matrix[i], digits)]
  /\ pc' = [pc EXCEPT ![i] = "check_pivot"]
  /\ trace' = [trace EXCEPT ![i] = Append(@, "factorize")]
  /\ UNCHANGED <<digits, fill, matrix, rhs, output, status, shapeVars, costVars>>

\* lines 90-93: min_abs_pivot > Scalar(0)
CheckPivot(i) ==
  /\ pc[i] = "check_pivot"
  /\ OP_REQUIRES(i, "check_pivot", DLess(DZero, MinAbsPivot(lu_decomposition[i])),
                 NotInvertible, "solve")
  /\ UNCHANGED <<digits, fill, matrix, rhs, output, lu_decomposition, shapeVars, costVars>>

\* line 94: *output = lu_decomposition.solve(rhs)
Solve(i) ==
  /\ pc[i] = "solve"
  /\ output' = [output EXCEPT ![i] = LUSolve(lu_decomposition[i], rhs[i], digits)]
  /\ pc' = [pc EXCEPT ![i] = "done"]
  /\ trace' = [trace EXCEPT ![i] = Append(@, "solve")]
  /\ UNCHANGED <<digits, fill, matrix, rhs, lu_decomposition, status, shapeVars, costVars>>

\* ComputeMatrix, lines 71-95: one step of call i
ComputeMatrix(i) ==
  \/ CheckSquare(i)
  \/ CheckRhs(i)
  \/ CheckEmpty(i)
  \/ Factorize(i)
  \/ CheckPivot(i)
  \/ Solve(i)

-----------------------------------------------------------------------------
(* GetOutputMatrixShape, lines 42-51.  A TensorShape is the sequence of its  *)
(* dimension sizes.                                                          *)

\* faulty variant: the first dimension is set instead of the last
OutputMatrixShapeFirstDim(in, r) == [in EXCEPT ![1] = r[1]]

\* lines 46-50: the input shape with its last dimension set to the rhs's
OutputMatrixShape(in, r) == [in EXCEPT ![Len(in)] = r[Len(in)]]

NoShape == << >>

\* CHECK_EQ (line 45) aborts the process when the dimension counts differ;
\* nothing is returned then
GetOutputMatrixShape ==
  /\ shape_pc = "call"
  /\ IF Len(input_matrix_shape) = Len(rhs_matrix_shape)
     THEN /\ output_matrix_shape' = OutputMatrixShape(input_matrix_shape, rhs_matrix_shape)
          /\ shape_pc' = "returned"
     ELSE /\ output_matrix_shape' = output_matrix_shape
          /\ shape_pc' = "aborted"
  /\ UNCHANGED <<input_matrix_shape, rhs_matrix_shape, solveVars, costVars>>

-----------------------------------------------------------------------------
(* GetCostPerUnit, lines 53-63.  An int64 is [neg, mag], mag a big natural.  *)

kint32max == 2147483647
\* 1LL << 20
RowsClamp == 2^20
\* the largest int64 and the magnitude of the smallest
Int64Max == BSub(BShl(<<1>>, 63), <<1>>)
Int64MinMag == BShl(<<1>>, 63)

Int64(neg, mag) == [neg |-> neg /\ mag # << >>, mag |-> mag]
I64Leq(x, y) ==
  IF x.neg /\ ~y.neg THEN TRUE
  ELSE IF ~x.neg /\ y.neg THEN FALSE
  ELSE IF x.neg THEN BCmp(x.mag, y.mag) >= 0
  ELSE BCmp(x.mag, y.mag) <= 0

\* the low 64 bits of the natural n, read as a two's complement int64
Wrap64(n) ==
  LET low == BSub(n, BShl(BShr(n, 64), 64))
  IN  IF BCmp(low, Int64Max) > 0 THEN Int64(TRUE, BSub(BShl(<<1>>, 64), low))
      ELSE Int64(FALSE, low)

\* rows * rows * (rows + rhss) in the integers
ExactCost(r, h) == BMul(BMul(r, r), BAdd(r, h))

\* line 61 leaves the int64 range: in rows + rhss or in the last product
\* (rows * rows is at most 2^40 on this branch)
CostOverflows(r, h) ==
  /\ BCmp(r, BFromInt(RowsClamp)) <= 0
  /\ \/ BCmp(BAdd(r, h), Int64Max) > 0
     \/ BCmp(ExactCost(r, h), Int64Max) > 0

\* What GetCostPerUnit may return.  Signed overflow is undefined behaviour: the
\* usual outcome is the wrapped product; the extremes stand for any other value.
CostPerUnit(r, h) ==
  IF BCmp(r, BFromInt(RowsClamp)) > 0 THEN {Int64(FALSE, BFromInt(kint32max))}
  ELSE IF CostOverflows(r, h)
  THEN {Wrap64(ExactCost(r, h)), Int64(FALSE, Int64Max), Int64(TRUE, Int64MinMag)}
  ELSE {Int64(FALSE, ExactCost(r, h))}

NoCall == [rows |-> << >>, rhss |-> << >>, cost |-> Int64(FALSE, << >>), made |-> FALSE]

\* one call, on an input shape (r, r) and a rhs shape (r, h)
GetCostPerUnit(r, h) ==
  /\ \E c \in CostPerUnit(r, h) : cost' = c
  /\ rows' = r
  /\ rhss' = h
  /\ overflowed' = CostOverflows(r, h)
  /\ prev_call' = IF cost_pc = "returned"
                  THEN [rows |-> rows, rhss |-> rhss, cost |-> cost, made |-> TRUE]
                  ELSE NoCall
  /\ cost_pc' = "returned"
  /\ UNCHANGED <<solveVars, shapeVars>>

-----------------------------------------------------------------------------
(* Inputs.                                                                   *)

\* entries of the generated 2 x 2 matrices are in -1 .. MaxEntry
MaxEntry == 1
\* calls of a batch
BatchSize == 2
\* shapes have 1 .. MaxDims dimensions of sizes 0 .. MaxDimSize
MaxDims == 3
MaxDimSize == 2
\* small row and rhs counts 0 .. MaxSmall, besides the large ones below
MaxSmall == 1

I2 == IntMat(2, 2, <<<<1, 0>>, <<0, 1>>>>)
Empty(c) == Mat(0, c, << >>)

Rhs2 == {IntMat(2, 1, <<<<4>>, <<6>>>>), I2}

GeneratedPairs ==
  {<<IntMat(2, 2, <<<<a, b>>, <<c, d>>>>), B>> :
     a \in -1..MaxEntry, b \in -1..MaxEntry, c \in -1..MaxEntry, d \in -1..MaxEntry,
     B \in Rhs2}

\* [[3, 1], [1, fl(1/3)]]: invertible, and its second pivot cancels to zero
Cancelling(d) ==
  Mat(2, 2, << <<DInt(3), DInt(1)>>, <<DInt(1), FDiv(DInt(1), DInt(3), d)>> >>)

ExamplePairs(d) ==
  { <<IntMat(2, 2, <<<<2, 0>>, <<0, 2>>>>), IntMat(2, 1, <<<<4>>, <<6>>>>)>>,
    <<IntMat(2, 2, <<<<1, 2>>, <<3, 4>>>>), I2>>,
    <<IntMat(2, 2, <<<<0, 0>>, <<0, 0>>>>), IntMat(2, 1, <<<<1>>, <<1>>>>)>>,
    <<IntMat(2, 2, <<<<0, 1>>, <<0, 1>>>>), IntMat(2, 1, <<<<1>>, <<1>>>>)>>,
    <<Cancelling(d), IntMat(2, 1, <<<<1>>, <<1>>>>)>>,
    <<IntMat(1, 1, <<<<4>>>>), IntMat(1, 2, <<<<2, 6>>>>)>>,
    <<IntMat(1, 1, <<<<0>>>>), IntMat(1, 1, <<<<1>>>>)>>,
    <<IntMat(3, 3, <<<<1, 2, 3>>, <<4, 5, 6>>, <<7, 8, 10>>>>),
      IntMat(3, 1, <<<<1>>, <<0>>, <<0>>>>)>>,
    <<IntMat(3, 3, <<<<1, 2, 3>>, <<4, 5, 6>>, <<7, 8, 9>>>>),
      IntMat(3, 1, <<<<1>>, <<0>>, <<0>>>>)>>,
    <<IntMat(3, 3, <<<<0, 0, 1>>, <<0, 0, 2>>, <<0, 0, 3>>>>),
      IntMat(3, 1, <<<<1>>, <<0>>, <<0>>>>)>>,
    \* shapes the checks reject
    <<IntMat(3, 2, <<<<1, 2>>, <<3, 4>>, <<5, 6>>>>), IntMat(3, 1, <<<<1>>, <<1>>, <<1>>>>)>>,
    <<IntMat(3, 2, <<<<1, 2>>, <<3, 4>>, <<5, 6>>>>), IntMat(2, 1, <<<<1>>, <<1>>>>)>>,
    <<IntMat(2, 3, <<<<1, 2, 3>>, <<4, 5, 6>>>>), IntMat(2, 1, <<<<1>>, <<1>>>>)>>,
    <<IntMat(2, 2, <<<<1, 2>>, <<3, 4>>>>), IntMat(3, 1, <<<<1>>, <<1>>, <<1>>>>)>>,
    <<IntMat(2, 2, <<<<1, 2>>, <<3, 4>>>>), Empty(1)>>,
    <<Empty(2), Empty(1)>>,
    <<Empty(0), IntMat(2, 1, <<<<1>>, <<1>>>>)>>,
    \* no equations
    <<Empty(0), Empty(0)>>,
    <<Empty(0), Empty(1)>>,
    <<Empty(0), Empty(2)>> }

Pairs(d) == GeneratedPairs \cup ExamplePairs(d)

\* the pairs of the batched runs: solved, not invertible, rejected for its
\* shape, without equations
BatchPairs ==
  { <<IntMat(2, 2, <<<<1, 2>>, <<3, 4>>>>), I2>>,
    <<IntMat(2, 2, <<<<0, 1>>, <<0, 1>>>>), IntMat(2, 1, <<<<1>>, <<1>>>>)>>,
    <<IntMat(2, 2, <<<<1, 2>>, <<3, 4>>>>), IntMat(3, 1, <<<<1>>, <<1>>, <<1>>>>)>>,
    <<Empty(0), Empty(2)>> }

Scalars == {FloatDigits, DoubleDigits}
Garbage == {DInt(0), DInt(-7)}

RECURSIVE SeqsUpTo(_, _)
SeqsUpTo(S, n) ==
  IF n = 0 THEN {<< >>}
  ELSE LET shorter == SeqsUpTo(S, n - 1)
       IN  shorter \cup {Append(q, x) : q \in shorter, x \in S}

Shapes == SeqsUpTo(0..MaxDimSize, MaxDims) \ {<< >>}

RowCounts ==
  {BFromInt(n) : n \in 0..MaxSmall}
    \cup {BFromInt(RowsClamp - 1), BFromInt(RowsClamp), BFromInt(RowsClamp + 1),
          BFromInt(kint32max)}
RhsCounts ==
  {BFromInt(n) : n \in 0..MaxSmall}
    \cup {BFromInt(RowsClamp), BFromInt(7 * RowsClamp), Int64Max}

-----------------------------------------------------------------------------
(* Specifications.                                                           *)

SolveIdle ==
  /\ digits = FloatDigits
  /\ fill = DZero
  /\ matrix = << >> /\ rhs = << >> /\ output = << >>
  /\ pc = << >> /\ lu_decomposition = << >> /\ status = << >> /\ trace = << >>

ShapeIdle ==
  /\ input_matrix_shape = NoShape /\ rhs_matrix_shape = NoShape
  /\ output_matrix_shape = NoShape
  /\ shape_pc = "idle"

CostIdle ==
  /\ rows = << >> /\ rhss = << >>
  /\ cost = Int64(FALSE, << >>)
  /\ overflowed = FALSE
  /\ prev_call = NoCall
  /\ cost_pc = "idle"

\* the output view of a pair: of the shape GetOutputMatrixShape gives, holding
\* whatever the buffer held
OutputView(A, B, x) ==
  LET shape == OutputMatrixShape(<<A.rows, A.cols>>, <<B.rows, B.cols>>)
  IN  Filled(shape[1], shape[2], x)

\* a batch of n calls about to start, on pairs of the given set, the output
\* buffers holding one of the given values
SolveInit(n, pairs, fills) ==
  /\ fill \in fills
  /\ \E batch \in [1..n -> pairs] :
       /\ matrix = [i \in 1..n |-> batch[i][1]]
       /\ rhs = [i \in 1..n |-> batch[i][2]]
       /\ output = [i \in 1..n |-> OutputView(batch[i][1], batch[i][2], fill)]
  /\ pc = [i \in 1..n |-> "check_square"]
  /\ lu_decomposition = [i \in 1..n |-> NoLU]
  /\ status = [i \in 1..n |-> OK]
  /\ trace = [i \in 1..n |-> << >>]
  /\ ShapeIdle
  /\ CostIdle

\* one call of ComputeMatrix (the MatrixSolve op, or a batch of one)
Init ==
  /\ digits \in Scalars
  /\ SolveInit(1, Pairs(digits), Garbage)

Next ==
  \/ \E i \in Calls : CheckSquare(i)
  \/ \E i \in Calls : CheckRhs(i)
  \/ \E i \in Calls : CheckEmpty(i)
  \/ \E i \in Calls : Factorize(i)
  \/ \E i \in Calls : CheckPivot(i)
  \/ \E i \in Calls : Solve(i)

Spec == Init /\ [][Next]_vars

\* BatchSize calls, their steps interleaved in any order
BatchInit ==
  /\ digits \in Scalars
  /\ SolveInit(BatchSize, BatchPairs, {DInt(-7)})

BatchSpec == BatchInit /\ [][Next]_vars

ShapeInit ==
  /\ input_matrix_shape \in Shapes
  /\ rhs_matrix_shape \in Shapes
  /\ output_matrix_shape = NoShape
  /\ shape_pc = "call"
  /\ SolveIdle
  /\ CostIdle

ShapeNext == GetOutputMatrixShape

ShapeSpec == ShapeInit /\ [][ShapeNext]_vars

CostInit == SolveIdle /\ ShapeIdle /\ CostIdle

CostNext == \E r \in RowCounts, h \in RhsCounts : GetCostPerUnit(r, h)

CostSpec == CostInit /\ [][CostNext]_vars

-----------------------------------------------------------------------------
(* Properties of ComputeMatrix (specification Spec: one call, every pair).   *)

Range(s) == {s[k] : k \in 1..Len(s)}

\* what the output view of call i held before the call
Untouched(i) == OutputView(matrix[i], rhs[i], fill)

ShapeRejected(i) ==
  matrix[i].rows # matrix[i].cols \/ matrix[i].rows # rhs[i].rows

\* C1: when A is not square or A.rows # B.rows, the call fails with
\* ShapeMismatch (it reports nothing else at any time, and that once done), no
\* factorization is performed, and the output view holds what it held before.
C1_ShapeMismatchRejected ==
  \A i \in Calls :
    ShapeRejected(i) =>
      /\ pc[i] \in {"check_square", "check_rhs", "done"}
      /\ "factorize" \notin Range(trace[i])
      /\ lu_decomposition[i] = NoLU
      /\ output[i] = Untouched(i)
      /\ status[i] \in ShapeMismatch \cup {OK}
      /\ pc[i] = "done" => status[i] \in ShapeMismatch

\* a square A with a B of another row count, rejected
C1_Witness ==
  \E i \in Calls :
    /\ matrix[i].rows = matrix[i].cols /\ matrix[i].rows # rhs[i].rows
    /\ pc[i] = "done" /\ status[i] = Incompatible

\* a square, nonempty A with a compatible B whose factorization (computed here
\* from A, not read from the state) has a zero on the diagonal of U
ZeroPivot(i) ==
  /\ matrix[i].rows = matrix[i].cols /\ matrix[i].rows = rhs[i].rows
  /\ matrix[i].rows > 0
  /\ ~DLess(DZero, MinAbsPivot(PartialPivLU(matrix[i], digits)))

\* C2: when the factorization of a square A has a zero diagonal entry of U, the
\* call fails with NotInvertible and the solve step is never performed.
C2_ZeroPivotRejected ==
  \A i \in Calls :
    (pc[i] \in {"solve", "done"} /\ ZeroPivot(i)) =>
      /\ pc[i] = "done"
      /\ status[i] = NotInvertible
      /\ "solve" \notin Range(trace[i])
      /\ output[i] = Untouched(i)

\* [[0, 1], [0, 1]] rejected after its factorization
C2_Witness ==
  \E i \in Calls :
    /\ matrix[i] = IntMat(2, 2, <<<<0, 1>>, <<0, 1>>>>)
    /\ "factorize" \in Range(trace[i])
    /\ pc[i] = "done" /\ status[i] = NotInvertible

NoEquations(i) ==
  matrix[i].rows = 0 /\ matrix[i].cols = 0 /\ rhs[i].rows = 0

\* C6: when A has no rows (and B none), the call succeeds whatever B's column
\* count, runs neither the factorization nor the pivot check, and writes no
\* element of the (zero-row) output.
C6_EmptySucceeds ==
  \A i \in Calls :
    NoEquations(i) =>
      /\ status[i] = OK
      /\ pc[i] \in {"check_square", "check_rhs", "check_empty", "done"}
      /\ Range(trace[i]) \subseteq {"check_square", "check_rhs", "check_empty"}
      /\ lu_decomposition[i] = NoLU
      /\ output[i] = Untouched(i)
      /\ output[i].rows = 0 /\ output[i].cols = rhs[i].cols

\* the empty system with two right-hand sides, done
C6_Witness ==
  \E i \in Calls :
    /\ NoEquations(i) /\ rhs[i].cols = 2
    /\ pc[i] = "done" /\ status[i] = OK /\ trace[i][Len(trace[i])] = "check_empty"

\* the steps of a call in program order
StepOrder ==
  <<"check_square", "check_rhs", "check_empty", "factorize", "check_pivot", "solve">>

\* t is the first steps of StepOrder, in order, then at most one report, which
\* follows a check that can fail and ends t
InOrder(t) ==
  LET steps == IF t # << >> /\ t[Len(t)] = "CtxFailure" THEN SubSeq(t, 1, Len(t) - 1) ELSE t
  IN  /\ Len(steps) <= Len(StepOrder)
      /\ steps = SubSeq(StepOrder, 1, Len(steps))
      /\ steps # t => steps # << >> /\ steps[Len(steps)] \in {"check_square", "check_rhs", "check_pivot"}

Reported(i) == trace[i] # << >> /\ trace[i][Len(trace[i])] = "CtxFailure"

\* C10: a call runs to completion (until it is done it stands at the step of
\* StepOrder after those it has executed, and no step has a condition but the
\* call standing there, so it is taken: at most six steps lead to done) with
\* exactly one outcome; its steps run in the order square check, row check,
\* empty check, factorization, pivot check, solve; a failure is reported at
\* most once, and then the call is done: no later step, no factorization after
\* a shape failure, no write to the output after any failure.
C10_OneOutcomeInOrder ==
  \A i \in Calls :
    /\ InOrder(trace[i])
    /\ pc[i] # "done" => Len(trace[i]) < Len(StepOrder) /\ pc[i] = StepOrder[Len(trace[i]) + 1]
    /\ pc[i] # "done" => status[i] = OK /\ ~Reported(i)
    /\ Reported(i) <=> status[i] # OK
    /\ status[i] \in ShapeMismatch \cup {NotInvertible, OK}
    /\ Reported(i) => pc[i] = "done" /\ output[i] = Untouched(i)
    /\ status[i] \in ShapeMismatch => lu_decomposition[i] = NoLU
    /\ pc[i] = "done" /\ status[i] = OK =>
         trace[i][Len(trace[i])] = IF matrix[i].rows = 0 THEN "check_empty" ELSE "solve"

\* a call done with NotInvertible: five steps and the report
C10_Witness ==
  \E i \in Calls :
    /\ pc[i] = "done" /\ status[i] = NotInvertible
    /\ trace[i] = SubSeq(StepOrder, 1, 5) \o <<"CtxFailure">>

-----------------------------------------------------------------------------
(* The solution (specification Spec).  A*X - B is computed exactly.          *)

RECURSIVE DSum(_)
DSum(xs) == IF xs = << >> THEN DZero ELSE DAdd(Head(xs), DSum(Tail(xs)))

\* entry (i, j) of A*X - B
Residual(A, X, B, i, j) ==
  DSub(DSum(Built([k \in 1..A.cols |-> DMul(A.coeff[i][k], X.coeff[k][j])])),
       B.coeff[i][j])

\* the largest absolute value of an entry of M (0 for an empty M)
MaxAbs(M) ==
  LET Largest(S) == CHOOSE x \in S : \A y \in S : DLeq(y, x)
  IN  Largest({DZero} \cup {DAbs(M.coeff[i][j]) : i \in 1..M.rows, j \in 1..M.cols})

\* every entry of A*X - B is at most 8 * n * epsilon * max|A| * max|X|
ResidualWithin(A, X, B, d) ==
  LET Within(tolerance) ==
        \A i \in 1..A.rows, j \in 1..B.cols :
          DLeq(DAbs(Residual(A, X, B, i, j)), tolerance)
  IN  Within(DScale(DMul(DMul(DInt(A.rows), Epsilon(d)), DMul(MaxAbs(A), MaxAbs(X))), 3))

\* c without its row r and its column 1
Minor(c, r, n) ==
  Built([i \in 1..(n - 1) |->
           Built([j \in 1..(n - 1) |-> c[IF i < r THEN i ELSE i + 1][j + 1]])])

\* the determinant of the n x n matrix c, exactly: expansion along column 1
RECURSIVE Det(_, _)
DetTerms(c, n) ==
  Built([r \in 1..n |->
           IF DIsZero(c[r][1]) THEN DZero
           ELSE IF r % 2 = 1 THEN DMul(c[r][1], Det(Minor(c, r, n), n - 1))
           ELSE DNeg(DMul(c[r][1], Det(Minor(c, r, n), n - 1)))])
Det(c, n) == IF n = 0 THEN DInt(1) ELSE DSum(DetTerms(c, n))

\* A is square with a nonzero determinant, and B has as many rows
Invertible(i) ==
  /\ matrix[i].rows = matrix[i].cols /\ matrix[i].rows = rhs[i].rows
  /\ ~DIsZero(Det(matrix[i].coeff, matrix[i].rows))

\* the factorization of A has no zero on the diagonal of U
NonzeroPivots(i) ==
  /\ matrix[i].rows = matrix[i].cols /\ matrix[i].rows = rhs[i].rows
  /\ matrix[i].rows > 0
  /\ DLess(DZero, MinAbsPivot(PartialPivLU(matrix[i], digits)))

\* the two systems of the specification's scenario, and their exact solutions
DiagonalA == IntMat(2, 2, <<<<2, 0>>, <<0, 2>>>>)
DiagonalB == IntMat(2, 1, <<<<4>>, <<6>>>>)
DiagonalX == IntMat(2, 1, <<<<2>>, <<3>>>>)
InverseA == IntMat(2, 2, <<<<1, 2>>, <<3, 4>>>>)
InverseX ==
  Mat(2, 2, << <<DInt(-2), DInt(1)>>, <<DScale(DInt(3), -1), DScale(DInt(-1), -1)>> >>)

-----------------------------------------------------------------------------
(* GetOutputMatrixShape (specification ShapeSpec).                           *)

ShapeResult ==
  /\ shape_pc \in {"call", "returned", "aborted"}
  /\ shape_pc = "call" => output_matrix_shape = NoShape
  /\ (shape_pc # "call" /\ Len(input_matrix_shape) = Len(rhs_matrix_shape)
        /\ Len(input_matrix_shape) >= 2) =>
       /\ shape_pc = "returned"
       /\ Len(output_matrix_shape) = Len(input_matrix_shape)
       /\ \A k \in 1..(Len(input_matrix_shape) - 1) :
            output_matrix_shape[k] = input_matrix_shape[k]
       /\ output_matrix_shape[Len(input_matrix_shape)] =
            rhs_matrix_shape[Len(input_matrix_shape)]
  /\ (shape_pc # "call" /\ Len(input_matrix_shape) # Len(rhs_matrix_shape)) =>
       /\ shape_pc = "aborted"
       /\ output_matrix_shape = NoShape

\* C8: for shapes of the same number n >= 2 of dimensions the result has n
\* dimensions, those of the input shape but the last, which is the rhs shape's
\* last; when the numbers differ the call fails and returns no shape; the two
\* argument shapes are never modified.
C8_ResolvedShape ==
  /\ []ShapeResult
  /\ [][/\ input_matrix_shape' = input_matrix_shape
        /\ rhs_matrix_shape' = rhs_matrix_shape]_vars

\* a result for three dimensions, differing from the input in the last only
C8_Witness ==
  /\ shape_pc = "returned"
  /\ Len(input_matrix_shape) = 3
  /\ input_matrix_shape[1] # rhs_matrix_shape[1]
  /\ input_matrix_shape[3] # rhs_matrix_shape[3]
  /\ output_matrix_shape # input_matrix_shape

-----------------------------------------------------------------------------
(* Batches (specification BatchSpec: BatchSize calls, interleaved).          *)

\* <<report, output>> of the call on (A, B) with an output view holding x,
\* when it runs alone from start to end
Alone(A, B, x, d) ==
  LET Factorized(lu) ==
        IF DLess(DZero, MinAbsPivot(lu)) THEN <<OK, LUSolve(lu, B, d)>>
        ELSE <<NotInvertible, OutputView(A, B, x)>>
  IN  IF A.rows # A.cols THEN <<NotSquare, OutputView(A, B, x)>>
      ELSE IF A.rows # B.rows THEN <<Incompatible, OutputView(A, B, x)>>
      ELSE IF A.rows = 0 THEN <<OK, OutputView(A, B, x)>>
      ELSE Factorized(PartialPivLU(A, d))

\* a step of call i changes nothing of another call j
OwnStep(i) ==
  \A j \in Calls \ {i} :
    /\ output'[j] = output[j]
    /\ status'[j] = status[j]
    /\ lu_decomposition'[j] = lu_decomposition[j]
    /\ pc'[j] = pc[j]
    /\ trace'[j] = trace[j]

SameAsAlone ==
  \A i \in Calls :
    /\ pc[i] = "done" => <<status[i], output[i]>> = Alone(matrix[i], rhs[i], fill, digits)
    /\ "solve" \notin Range(trace[i]) => output[i] = Untouched(i)

-----------------------------------------------------------------------------
(* GetCostPerUnit (specification CostSpec: any sequence of calls; a state    *)
(* holds the last call and, in prev_call, the one before it).                *)

\* C3, as stated: for a fixed rhss the estimate does not decrease when rows
\* grows, the step from 2^20 to 2^20 + 1 included.  Violated: the estimate of
\* rows = 2^20, rhss = 0 is 2^60, that of rows = 2^20 + 1 is kint32max.
C3_Monotone ==
  (cost_pc = "returned" /\ prev_call.made
     /\ prev_call.rhss = rhss /\ BCmp(prev_call.rows, rows) <= 0) =>
    I64Leq(prev_call.cost, cost)

\* C4, as stated: on the branch rows <= 2^20 the product never leaves the
\* int64 range, and the estimate is never negative.  Violated: rows = 2^20,
\* rhss = 7 * 2^20 gives the product 2^63.
C4_NoOverflow ==
  cost_pc = "returned" =>
    /\ ~overflowed
    /\ BCmp(rows, BFromInt(RowsClamp)) <= 0 => BCmp(ExactCost(rows, rhss), Int64Max) <= 0
    /\ ~cost.neg

\* C5, as stated: for rows > 2^20 the estimate is the saturation value, which
\* no estimate exceeds; otherwise it is exactly rows * rows * (rows + rhss).
\* Violated: kint32max is less than the estimate 2^60 of rows = 2^20, and the
\* int64 product is not the exact one when it overflows.
C5_SaturatesOrExact ==
  cost_pc = "returned" =>
    IF BCmp(rows, BFromInt(RowsClamp)) > 0
    THEN prev_call.made => I64Leq(prev_call.cost, cost)
    ELSE cost = Int64(FALSE, ExactCost(rows, rhss))

====
